---- MODULE Spec2Model ----
(***************************************************************************)
(* A model of excel-aggregator: the Location cursor, the Finder rule       *)
(* combinator and the aggregate_csv_data extraction pass.                  *)
(*                                                                         *)
(* A Python str is a sequence of one-character strings, so that            *)
(* startswith and slicing are computed, not assumed.  A sheet is the       *)
(* list of rows csv.reader yields: every cell is a str, rows may differ    *)
(* in length.  Coordinates are 0-based as in the source: the cell          *)
(* sheet[y][x] of the source is sheet[y + 1][x + 1] here.                  *)
(***************************************************************************)
EXTENDS Integers, Sequences, FiniteSets, TLC

VARIABLES
    sheet,          \* the grid a rule is being evaluated against
    pc,             \* position of the rule evaluation: start, ready, scan, raised
    loc,            \* the Location (or None) the chain has produced so far
    op,             \* the Finder step evaluated last
    applied,        \* whether _chain invoked the last step's operation
    origin,         \* coordinates of the Location the last operation was invoked on
    scan,           \* coordinates reached by the running _moveUntilValue loop
    folder,         \* os.listdir(folder_path)
    parse_columns,  \* the (column_name, rule) pairs of the pass
    fi,             \* index of the file of the listing being processed
    ci,             \* index of the pair being evaluated
    si,             \* index of the next step of that pair's rule
    row_data,       \* the row under construction
    all_data,       \* the rows appended so far
    pcA,            \* position of aggregate_csv_data
    out             \* the rows written to the output file, once written

navVars == <<sheet, pc, loc, op, applied, origin, scan>>
aggVars == <<folder, parse_columns, fi, ci, si, row_data, all_data, pcA, out>>
vars == <<sheet, pc, loc, op, applied, origin, scan,
          folder, parse_columns, fi, ci, si, row_data, all_data, pcA, out>>

(***************************************************************************)
(* Bounds of the model.                                                    *)
(***************************************************************************)
MaxRows == 3
MaxCells == 3
MaxMoves == 2
AggRows == 2
AggCells == 2
MaxFiles == 2

(***************************************************************************)
(* Values.                                                                 *)
(***************************************************************************)
\* Python's None, as returned by every operation that finds nothing.
None == [none |-> TRUE]

\* A str value and a float value (n hundredths: remove_pvm rounds to 2 digits).
Str(s) == [kind |-> "str", s |-> s, n |-> 0]
Float(n) == [kind |-> "float", s |-> <<>>, n |-> n]

EmptyStr == Str(<<>>)

\* The cell texts of the modelled sheets: "", "1" and "1a".
CellValues == {<<>>, <<"1">>, <<"1", "a">>}

\* The targets and prefixes rules search for: "1" and "1a".
Targets == {<<"1">>, <<"1", "a">>}

\* The text the exact scans look for: "1a", so that "1" is a value they pass.
ScanTargets == {<<"1", "a">>}

Digits == {"0", "1", "2", "3", "4", "5", "6", "7", "8", "9"}

DigitVal(c) ==
    CASE c = "0" -> 0 [] c = "1" -> 1 [] c = "2" -> 2 [] c = "3" -> 3
      [] c = "4" -> 4 [] c = "5" -> 5 [] c = "6" -> 6 [] c = "7" -> 7
      [] c = "8" -> 8 [] c = "9" -> 9

\* str.startswith
startswith(s, prefix) ==
    /\ Len(prefix) <= Len(s)
    /\ SubSeq(s, 1, Len(prefix)) = prefix

\* cell[len(prefix):]
slice_from(s, n) == SubSeq(s, n + 1, Len(s))

\* All rows of exactly n cells.
RECURSIVE RowsOfLen(_)
RowsOfLen(n) ==
    IF n = 0 THEN {<<>>}
    ELSE {Append(r, c) : r \in RowsOfLen(n - 1), c \in CellValues}

\* All sheets of at most r rows holding at most c cells in total.
RECURSIVE GridsOf(_, _)
GridsOf(r, c) ==
    IF r = 0 THEN {<<>>}
    ELSE {<<>>} \cup
         UNION {UNION {{<<row>> \o g : g \in GridsOf(r - 1, c - n)} :
                       row \in RowsOfLen(n)} : n \in 0..c}

Grids == GridsOf(MaxRows, MaxCells)

(***************************************************************************)
(* Location.                                                               *)
(***************************************************************************)
Location(x, y, value, prefix, suffix) ==
    [x |-> x, y |-> y, value |-> value, prefix |-> prefix, suffix |-> suffix]

NoCoord == [none |-> TRUE]
Coord(x, y) == [x |-> x, y |-> y]

_within_bounds_lt(x, y, sh) ==
    /\ 0 <= y /\ y < Len(sh)
    /\ 0 < x /\ x < Len(sh[y + 1])

_within_bounds(x, y, sh) ==
    /\ 0 <= y /\ y < Len(sh)
    /\ 0 <= x /\ x < Len(sh[y + 1])

_get_cell_value(x, y, sh) ==
    IF _within_bounds(x, y, sh) THEN Str(sh[y + 1][x + 1]) ELSE None

\* The loop of Location.move: None as soon as one step leaves the sheet.
RECURSIVE move_loop(_, _, _, _, _, _)
move_loop(new_x, new_y, dx, dy, moves, sh) ==
    IF moves > 0
    THEN IF ~_within_bounds(new_x + dx, new_y + dy, sh)
         THEN None
         ELSE move_loop(new_x + dx, new_y + dy, dx, dy, moves - 1, sh)
    ELSE Location(new_x, new_y, _get_cell_value(new_x, new_y, sh), <<>>, <<>>)

\* A move that checks the destination only.
move_dest_only(l, dx, dy, moves, sh) ==
    IF moves > 0 /\ ~_within_bounds(l.x + moves * dx, l.y + moves * dy, sh)
    THEN None
    ELSE Location(l.x + moves * dx, l.y + moves * dy,
                  _get_cell_value(l.x + moves * dx, l.y + moves * dy, sh),
                  <<>>, <<>>)

move(l, dx, dy, moves, sh) == move_loop(l.x, l.y, dx, dy, moves, sh)

\* A scan that carries on past an empty cell.
RECURSIVE _moveUntilLastContinuousValue_skip(_, _, _, _)
_moveUntilLastContinuousValue_skip(current, dx, dy, sh) ==
    LET nxt == move(current, dx, dy, 1, sh) IN
    IF nxt = None THEN current
    ELSE _moveUntilLastContinuousValue_skip(nxt, dx, dy, sh)

RECURSIVE _moveUntilLastContinuousValue(_, _, _, _)
_moveUntilLastContinuousValue(current, dx, dy, sh) ==
    LET nxt == move(current, dx, dy, 1, sh) IN
    IF nxt = None THEN current
    ELSE IF nxt.value = EmptyStr THEN current
    ELSE _moveUntilLastContinuousValue(nxt, dx, dy, sh)

(***************************************************************************)
(* Search primitives: the first match in row-major order.                  *)
(***************************************************************************)
\* A search that keeps the last match instead of the first.
RECURSIVE findExact_last(_, _, _, _)
findExact_last(value, sh, y, x) ==
    IF y >= Len(sh) THEN None
    ELSE IF x >= Len(sh[y + 1]) THEN findExact_last(value, sh, y + 1, 0)
    ELSE LET later == findExact_last(value, sh, y, x + 1) IN
         IF later # None THEN later
         ELSE IF sh[y + 1][x + 1] = value
              THEN Location(x, y, Str(sh[y + 1][x + 1]), <<>>, <<>>)
              ELSE None

\* The loops of findExact's finder, entered at row y, column x.
RECURSIVE findExact_from(_, _, _, _)
findExact_from(value, sh, y, x) ==
    IF y >= Len(sh) THEN None
    ELSE IF x >= Len(sh[y + 1]) THEN findExact_from(value, sh, y + 1, 0)
    ELSE IF sh[y + 1][x + 1] = value
         THEN Location(x, y, Str(sh[y + 1][x + 1]), <<>>, <<>>)
         ELSE findExact_from(value, sh, y, x + 1)

findExact_lastmatch(value, sh) == findExact_last(value, sh, 0, 0)

findExact(value, sh) == findExact_from(value, sh, 0, 0)

\* A prefix search that forgets to record the suffix.
RECURSIVE findPrefix_nosuffix(_, _, _, _)
findPrefix_nosuffix(prefix, sh, y, x) ==
    IF y >= Len(sh) THEN None
    ELSE IF x >= Len(sh[y + 1]) THEN findPrefix_nosuffix(prefix, sh, y + 1, 0)
    ELSE IF startswith(sh[y + 1][x + 1], prefix)
         THEN Location(x, y, Str(sh[y + 1][x + 1]), prefix, <<>>)
         ELSE findPrefix_nosuffix(prefix, sh, y, x + 1)

\* The loops of findPrefix's finder.  Every cell csv.reader yields is a str,
\* so isinstance(cell, str) holds of all of them.
RECURSIVE findPrefix_from(_, _, _, _)
findPrefix_from(prefix, sh, y, x) ==
    IF y >= Len(sh) THEN None
    ELSE IF x >= Len(sh[y + 1]) THEN findPrefix_from(prefix, sh, y + 1, 0)
    ELSE IF startswith(sh[y + 1][x + 1], prefix)
         THEN Location(x, y, Str(sh[y + 1][x + 1]), prefix,
                       slice_from(sh[y + 1][x + 1], Len(prefix)))
         ELSE findPrefix_from(prefix, sh, y, x + 1)

findPrefix_forgetful(prefix, sh) == findPrefix_nosuffix(prefix, sh, 0, 0)

findPrefix(prefix, sh) == findPrefix_from(prefix, sh, 0, 0)

(***************************************************************************)
(* remove_pvm: float(value) / 1.21, rounded to 2 digits.                   *)
(***************************************************************************)
\* PMV_AMOUNT, in hundredths.
PMV_AMOUNT == 121

\* Whether float(s) parses: here, for texts of digits, letters and blanks,
\* iff s, stripped of blanks, is a non-empty run of digits.
RECURSIVE strip_left(_)
strip_left(s) ==
    IF s # <<>> /\ Head(s) = " " THEN strip_left(Tail(s)) ELSE s

RECURSIVE strip_right(_)
strip_right(s) ==
    IF s # <<>> /\ s[Len(s)] = " " THEN strip_right(SubSeq(s, 1, Len(s) - 1))
    ELSE s

strip(s) == strip_right(strip_left(s))

is_float_text(s) ==
    /\ strip(s) # <<>>
    /\ \A i \in 1..Len(strip(s)) : strip(s)[i] \in Digits

RECURSIVE int_of(_)
int_of(s) ==
    IF s = <<>> THEN 0
    ELSE 10 * int_of(SubSeq(s, 1, Len(s) - 1)) + DigitVal(s[Len(s)])

\* float(value), in hundredths; defined when float(value) does not raise.
float_of(value) ==
    IF value.kind = "float" THEN value.n ELSE 100 * int_of(strip(value.s))

\* Whether remove_pvm(value) raises (ValueError from float).
remove_pvm_raises(value) ==
    value.kind = "str" /\ ~is_float_text(value.s)

\* round(float(value) / 1.21, 2), in hundredths.  The quotient is never
\* half-way between two hundredths (121 is odd), so rounding is to nearest.
remove_pvm(value) ==
    Float((2 * 100 * float_of(value) + PMV_AMOUNT) \div (2 * PMV_AMOUNT))

(***************************************************************************)
(* Finder steps.                                                           *)
(***************************************************************************)
DOWN == <<0, 1>>
RIGHT == <<1, 0>>
LEFT == <<-1, 0>>
UP == <<0, -1>>
Deltas == {DOWN, RIGHT, LEFT, UP}

Step(kind, dx, dy, moves, arg) ==
    [kind |-> kind, dx |-> dx, dy |-> dy, moves |-> moves, arg |-> arg]

NoStep == Step("none", 0, 0, 0, <<>>)

S_findExact(value) == Step("findExact", 0, 0, 0, value)
S_findPrefix(prefix) == Step("findPrefix", 0, 0, 0, prefix)
S_move(delta, moves) == Step("move", delta[1], delta[2], moves, <<>>)
S_goRightUntilValue == Step("untilValue", 1, 0, 0, <<>>)
S_goBelowUntilValue == Step("untilValue", 0, 1, 0, <<>>)
S_goRightUntilExact(value) == Step("untilExact", 1, 0, 0, value)
S_goRightUntilPrefix(prefix) == Step("untilPrefix", 1, 0, 0, prefix)
S_goBelowUntilExact(value) == Step("untilExact", 0, 1, 0, value)
S_goBelowUntilPrefix(prefix) == Step("untilPrefix", 0, 1, 0, prefix)
S_goRightUntilLastContinuousValue == Step("untilLastContinuous", 1, 0, 0, <<>>)
S_goBelowUntilLastContinuousValue == Step("untilLastContinuous", 0, 1, 0, <<>>)
S_getSuffix == Step("getSuffix", 0, 0, 0, <<>>)
S_modify_remove_pvm == Step("modify", 0, 0, 0, <<>>)

ScanKinds == {"untilValue", "untilExact", "untilPrefix"}

NoScan == [none |-> TRUE]

\* The condition _moveUntil tests on each value _moveUntilValue returns;
\* goRight and goBelow return the first value whatever it is.
condition(o, value) ==
    CASE o.kind = "untilValue" -> TRUE
      [] o.kind = "untilExact" -> value = Str(o.arg)
      [] o.kind = "untilPrefix" -> startswith(value.s, o.arg)

\* Whether the operation of step o raises on Location l.
raises(o, l) == o.kind = "modify" /\ remove_pvm_raises(l.value)

\* The Location the operation of step o returns on Location l, for the
\* steps that return at once.
operation(o, l, sh) ==
    CASE o.kind = "move" -> move(l, o.dx, o.dy, o.moves, sh)
      [] o.kind = "untilLastContinuous" ->
            _moveUntilLastContinuousValue(l, o.dx, o.dy, sh)
      [] o.kind = "getSuffix" -> Location(l.x, l.y, Str(l.suffix), <<>>, <<>>)
      [] o.kind = "modify" ->
            Location(l.x, l.y, remove_pvm(l.value), <<>>, <<>>)

\* A chain that invokes the operation whatever the inner finder returned:
\* on None the operation raises AttributeError.
_chain_unguarded(o) ==
    /\ pc = "ready"
    /\ op' = o
    /\ applied' = TRUE
    /\ IF loc = None
       THEN /\ pc' = "raised"
            /\ UNCHANGED <<loc, scan>>
            /\ origin' = NoCoord
       ELSE /\ origin' = Coord(loc.x, loc.y)
            /\ IF o.kind \in ScanKinds
               THEN /\ pc' = "scan"
                    /\ scan' = Coord(loc.x, loc.y)
                    /\ UNCHANGED loc
               ELSE IF raises(o, loc)
               THEN /\ pc' = "raised"
                    /\ UNCHANGED <<loc, scan>>
               ELSE /\ pc' = "ready"
                    /\ loc' = operation(o, loc, sheet)
                    /\ UNCHANGED scan

\* Finder._chain, new_find_func: the inner finder has returned loc; step
\* o's operation is invoked on it unless it is None.
_chain(o) ==
    /\ pc = "ready"
    /\ op' = o
    /\ IF loc = None
       THEN /\ applied' = FALSE
            /\ origin' = NoCoord
            /\ UNCHANGED <<pc, loc, scan>>
       ELSE /\ applied' = TRUE
            /\ origin' = Coord(loc.x, loc.y)
            /\ IF o.kind \in ScanKinds
               THEN /\ pc' = "scan"
                    /\ scan' = Coord(loc.x, loc.y)
                    /\ UNCHANGED loc
               ELSE IF raises(o, loc)
               THEN /\ pc' = "raised"
                    /\ UNCHANGED <<loc, scan>>
               ELSE /\ pc' = "ready"
                    /\ loc' = operation(o, loc, sheet)
                    /\ UNCHANGED scan

\* A scan whose loop calls self._moveUntilValue instead of
\* current._moveUntilValue: after a value that fails the condition it starts
\* over from the Location the scan was invoked on.
_moveUntil_step_from_self ==
    /\ pc = "scan"
    /\ LET new_x == scan.x + op.dx
           new_y == scan.y + op.dy
           value == _get_cell_value(new_x, new_y, sheet)
       IN  IF ~_within_bounds(new_x, new_y, sheet)
           THEN /\ loc' = None
                /\ pc' = "ready"
                /\ scan' = NoScan
           ELSE IF value # EmptyStr /\ condition(op, value)
           THEN /\ loc' = Location(new_x, new_y, value, <<>>, <<>>)
                /\ pc' = "ready"
                /\ scan' = NoScan
           ELSE IF value # EmptyStr
           THEN /\ scan' = Coord(loc.x, loc.y)
                /\ UNCHANGED <<loc, pc>>
           ELSE /\ scan' = Coord(new_x, new_y)
                /\ UNCHANGED <<loc, pc>>
    /\ UNCHANGED <<sheet, op, applied, origin>>

\* One iteration of the loop of _moveUntilValue, with the test _moveUntil
\* makes of the Location it returns: the scan ends with None when it leaves
\* the sheet, ends with the Location of a non-empty value that meets the
\* condition, and goes on from the cell reached otherwise.
_moveUntil_step ==
    /\ pc = "scan"
    /\ LET new_x == scan.x + op.dx
           new_y == scan.y + op.dy
           value == _get_cell_value(new_x, new_y, sheet)
       IN  IF ~_within_bounds(new_x, new_y, sheet)
           THEN /\ loc' = None
                /\ pc' = "ready"
                /\ scan' = NoScan
           ELSE IF value # EmptyStr /\ condition(op, value)
           THEN /\ loc' = Location(new_x, new_y, value, <<>>, <<>>)
                /\ pc' = "ready"
                /\ scan' = NoScan
           ELSE /\ scan' = Coord(new_x, new_y)
                /\ UNCHANGED <<loc, pc>>
    /\ UNCHANGED <<sheet, op, applied, origin>>

\* The search primitive a rule starts with.
_find(o) ==
    /\ pc = "start"
    /\ op' = o
    /\ loc' = IF o.kind = "findExact" THEN findExact(o.arg, sheet)
              ELSE findPrefix(o.arg, sheet)
    /\ pc' = "ready"
    /\ applied' = TRUE
    /\ origin' = NoCoord
    /\ scan' = NoScan

(***************************************************************************)
(* Evaluation of an arbitrary rule, step by step, against one sheet.       *)
(***************************************************************************)
Init ==
    /\ sheet \in Grids
    /\ pc = "start"
    /\ loc = None
    /\ op = NoStep
    /\ applied = FALSE
    /\ origin = NoCoord
    /\ scan = NoScan
    /\ folder = <<>>
    /\ parse_columns = <<>>
    /\ fi = 0
    /\ ci = 0
    /\ si = 0
    /\ row_data = <<>>
    /\ all_data = <<>>
    /\ pcA = "idle"
    /\ out = None

FindExact ==
    \E value \in Targets :
        _find(S_findExact(value)) /\ UNCHANGED sheet /\ UNCHANGED aggVars

FindPrefix ==
    \E prefix \in Targets :
        _find(S_findPrefix(prefix)) /\ UNCHANGED sheet /\ UNCHANGED aggVars

Move ==
    \E delta \in Deltas, moves \in 0..MaxMoves :
        _chain(S_move(delta, moves)) /\ UNCHANGED sheet /\ UNCHANGED aggVars

GoRightUntilValue ==
    _chain(S_goRightUntilValue) /\ UNCHANGED sheet /\ UNCHANGED aggVars

GoBelowUntilValue ==
    _chain(S_goBelowUntilValue) /\ UNCHANGED sheet /\ UNCHANGED aggVars

GoRightUntilExact ==
    \E value \in ScanTargets :
        _chain(S_goRightUntilExact(value)) /\ UNCHANGED sheet /\ UNCHANGED aggVars

GoRightUntilPrefix ==
    \E prefix \in Targets :
        _chain(S_goRightUntilPrefix(prefix)) /\ UNCHANGED sheet /\ UNCHANGED aggVars

GoBelowUntilLastContinuousValue ==
    _chain(S_goBelowUntilLastContinuousValue) /\ UNCHANGED sheet /\ UNCHANGED aggVars

GoBelowUntilExact ==
    \E value \in ScanTargets :
        _chain(S_goBelowUntilExact(value)) /\ UNCHANGED sheet /\ UNCHANGED aggVars

GoBelowUntilPrefix ==
    \E prefix \in Targets :
        _chain(S_goBelowUntilPrefix(prefix)) /\ UNCHANGED sheet /\ UNCHANGED aggVars

GoRightUntilLastContinuousValue ==
    _chain(S_goRightUntilLastContinuousValue) /\ UNCHANGED sheet /\ UNCHANGED aggVars

GetSuffix ==
    _chain(S_getSuffix) /\ UNCHANGED sheet /\ UNCHANGED aggVars

MoveUntilStep ==
    _moveUntil_step /\ UNCHANGED aggVars

Next ==
    \/ FindExact
    \/ FindPrefix
    \/ Move
    \/ GoRightUntilValue
    \/ GoBelowUntilValue
    \/ GoRightUntilExact
    \/ GoRightUntilPrefix
    \/ GoBelowUntilLastContinuousValue
    \/ GoBelowUntilExact
    \/ GoBelowUntilPrefix
    \/ GoRightUntilLastContinuousValue
    \/ GetSuffix
    \/ MoveUntilStep

Spec == Init /\ [][Next]_vars

\* The evaluation is synchronous: a running scan loop takes its next iteration.
FairSpec == Spec /\ WF_vars(MoveUntilStep)

(***************************************************************************)
(* aggregate_csv_data: one row per .csv file of the folder.                *)
(***************************************************************************)
\* str.endswith
endswith(s, suffix) ==
    /\ Len(suffix) <= Len(s)
    /\ SubSeq(s, Len(s) - Len(suffix) + 1, Len(s)) = suffix

DotCsv == <<".", "c", "s", "v">>

\* The file names of the modelled folders: a.csv, b.csv and c.txt.
FileNames ==
    {<<"a">> \o DotCsv, <<"b">> \o DotCsv, <<"c", ".", "t", "x", "t">>}

\* os.listdir: the names of the folder, each once, in any order.
RECURSIVE ListingsOf(_)
ListingsOf(n) ==
    IF n = 0 THEN {<<>>}
    ELSE ListingsOf(n - 1) \cup
         {Append(l, f) : l \in {m \in ListingsOf(n - 1) : Len(m) = n - 1},
                         f \in FileNames}

Listings ==
    {l \in ListingsOf(MaxFiles) :
        \A i, j \in 1..Len(l) : i # j => l[i] # l[j]}

\* Rule sets in the shape of parse_columns_data1 and parse_columns_data2,
\* over the texts of the modelled sheets.
parse_columns_data1 ==
    << <<"DATA", <<S_findPrefix(<<"1">>), S_getSuffix>> >>,
       <<"KODAS", <<S_findPrefix(<<"1">>),
                    S_goBelowUntilPrefix(<<"1", "a">>), S_getSuffix>> >>,
       <<"VARDAS", <<S_findExact(<<"1">>), S_goBelowUntilValue>> >> >>

parse_columns_data2 ==
    << <<"DATA", <<S_findPrefix(<<"1">>), S_goBelowUntilValue>> >>,
       <<"PIRKEJAS", <<S_findExact(<<"1", "a">>), S_move(RIGHT, 1),
                       S_goBelowUntilExact(<<"1">>), S_move(UP, 1)>> >>,
       <<"KAINA BE PVM", <<S_findExact(<<"1", "a">>),
                           S_goBelowUntilLastContinuousValue,
                           S_modify_remove_pvm>> >> >>

RuleSets == {parse_columns_data1, parse_columns_data2}

AggGrids == GridsOf(AggRows, AggCells)

column_name == parse_columns[ci][1]
value_fn == parse_columns[ci][2]

\* row_data[key] = value
dict_set(row, key, value) ==
    [k \in (DOMAIN row) \cup {key} |-> IF k = key THEN value ELSE row[k]]

\* if location: row_data[column_name] = location.value
end_column(row, name, location) ==
    IF location # None THEN dict_set(row, name, location.value) ELSE row

AggInit ==
    /\ folder \in Listings
    /\ parse_columns \in RuleSets
    /\ sheet = <<>>
    /\ pc = "start"
    /\ loc = None
    /\ op = NoStep
    /\ applied = FALSE
    /\ origin = NoCoord
    /\ scan = NoScan
    /\ fi = 1
    /\ ci = 0
    /\ si = 0
    /\ row_data = <<>>
    /\ all_data = <<>>
    /\ pcA = "files"
    /\ out = None

\* The next name of the listing ends in .csv: the file is read into sheet and
\* its row starts with the file's name.
OpenFile ==
    /\ pcA = "files"
    /\ fi <= Len(folder)
    /\ endswith(folder[fi], DotCsv)
    /\ \E sh \in AggGrids : sheet' = sh
    /\ row_data' = [k \in {"Filename"} |-> Str(folder[fi])]
    /\ ci' = 1
    /\ si' = 1
    /\ pcA' = "columns"
    /\ pc' = "start"
    /\ loc' = None
    /\ op' = NoStep
    /\ applied' = FALSE
    /\ origin' = NoCoord
    /\ scan' = NoScan
    /\ UNCHANGED <<folder, parse_columns, fi, all_data, out>>

\* Any other name is passed over.
SkipFile ==
    /\ pcA = "files"
    /\ fi <= Len(folder)
    /\ ~endswith(folder[fi], DotCsv)
    /\ fi' = fi + 1
    /\ UNCHANGED <<navVars, folder, parse_columns, ci, si, row_data, all_data,
                   pcA, out>>

\* value_fn(sheet): the search primitive of the pair's rule.
EvalFind ==
    /\ pcA = "columns"
    /\ ci <= Len(parse_columns)
    /\ si = 1
    /\ _find(value_fn[1])
    /\ si' = 2
    /\ UNCHANGED <<sheet, folder, parse_columns, fi, ci, row_data, all_data,
                   pcA, out>>

\* value_fn(sheet): the next chained step of the rule.  Nothing catches what
\* a step raises: the exception leaves aggregate_csv_data.
EvalStep ==
    /\ pcA = "columns"
    /\ ci <= Len(parse_columns)
    /\ 1 < si /\ si <= Len(value_fn)
    /\ _chain(value_fn[si])
    /\ si' = si + 1
    /\ pcA' = IF pc' = "raised" THEN "crashed" ELSE pcA
    /\ UNCHANGED <<sheet, folder, parse_columns, fi, ci, row_data, all_data,
                   out>>

\* value_fn(sheet): one iteration of a scan the rule is in.
EvalScan ==
    /\ pcA = "columns"
    /\ _moveUntil_step
    /\ UNCHANGED aggVars

\* The rule has returned: its value, if any, enters the row.
EndColumn ==
    /\ pcA = "columns"
    /\ ci <= Len(parse_columns)
    /\ pc = "ready"
    /\ si > Len(value_fn)
    /\ row_data' = end_column(row_data, column_name, loc)
    /\ ci' = ci + 1
    /\ si' = 1
    /\ pc' = "start"
    /\ loc' = None
    /\ op' = NoStep
    /\ applied' = FALSE
    /\ origin' = NoCoord
    /\ scan' = NoScan
    /\ UNCHANGED <<sheet, folder, parse_columns, fi, all_data, pcA, out>>

\* all_data.append(row_data)
AppendRow ==
    /\ pcA = "columns"
    /\ ci > Len(parse_columns)
    /\ all_data' = Append(all_data, row_data)
    /\ fi' = fi + 1
    /\ pcA' = "files"
    /\ UNCHANGED <<navVars, folder, parse_columns, ci, si, row_data, out>>

\* pd.DataFrame(all_data).to_csv(...): the rows reach the output file.
WriteOutput ==
    /\ pcA = "files"
    /\ fi > Len(folder)
    /\ out' = all_data
    /\ pcA' = "done"
    /\ UNCHANGED <<navVars, folder, parse_columns, fi, ci, si, row_data,
                   all_data>>

AggNext ==
    \/ OpenFile
    \/ SkipFile
    \/ EvalFind
    \/ EvalStep
    \/ EvalScan
    \/ EndColumn
    \/ AppendRow
    \/ WriteOutput

AggSpec == AggInit /\ [][AggNext]_vars

(***************************************************************************)
(* The grid as the properties read it.                                     *)
(***************************************************************************)
Valid(x, y) ==
    /\ y \in 0..(Len(sheet) - 1)
    /\ x \in 0..(Len(sheet[y + 1]) - 1)

Cell(x, y) == sheet[y + 1][x + 1]

\* No scan or move goes further than this many cells.
RECURSIVE Extent(_)
Extent(sh) ==
    IF sh = <<>> THEN 1 ELSE 1 + Len(Head(sh)) + Extent(Tail(sh))

\* text = prefix followed by rest
Splits(text, prefix, rest) == text = prefix \o rest

HasPrefix(text, prefix) ==
    \E n \in 0..Len(text) : SubSeq(text, 1, n) = prefix

Rest(text, prefix) ==
    CHOOSE rest \in {SubSeq(text, n, Len(text)) : n \in 1..(Len(text) + 1)} :
        Splits(text, prefix, rest)

\* Every cell from (x, y), excluded, to k steps further lies in the sheet.
PathValid(x, y, dx, dy, k) ==
    \A j \in 1..k : Valid(x + j * dx, y + j * dy)

(***************************************************************************)
(* C3.  Once the search or a step has yielded None, every later step of    *)
(* the chain leaves its operation unevaluated and yields None again, and   *)
(* no exception is raised: the rule evaluates to None.                     *)
(***************************************************************************)
C3_NotFoundPropagates ==
    [][(pc = "ready" /\ loc = None)
          => (loc' = None /\ pc' = "ready" /\ applied' = FALSE)]_vars

\* A read-suffix step skipped because the chain had already yielded None.
C3_Witness ==
    /\ pc = "ready"
    /\ op.kind = "getSuffix"
    /\ applied = FALSE
    /\ loc = None

(***************************************************************************)
(* C4.  As claimed: move(d, n) followed by move(-d, n) yields a Location   *)
(* at the coordinate it started from whenever that coordinate and the      *)
(* destination both lie in the sheet.                                      *)
(***************************************************************************)
Undoes(o2, o1) ==
    /\ o1.kind = "move" /\ o2.kind = "move"
    /\ o2.dx = -o1.dx /\ o2.dy = -o1.dy
    /\ o2.moves = o1.moves

C4_BothEndsValid_Original ==
    [][(/\ pc = "ready" /\ op.kind = "move" /\ applied
        /\ Undoes(op', op)
        /\ Valid(origin.x, origin.y)
        /\ Valid(origin.x + op.moves * op.dx, origin.y + op.moves * op.dy))
          => (/\ loc' # None
              /\ loc'.x = origin.x
              /\ loc'.y = origin.y)]_vars

(***************************************************************************)
(* C4, amended.  move(d, n) followed by move(-d, n) yields a Location at   *)
(* the coordinate it started from whenever every coordinate from the start *)
(* to the destination lies in the sheet.                                   *)
(***************************************************************************)
C4_WholePathValid ==
    [][(/\ pc = "ready" /\ op.kind = "move" /\ applied
        /\ Undoes(op', op)
        /\ Valid(origin.x, origin.y)
        /\ PathValid(origin.x, origin.y, op.dx, op.dy, op.moves))
          => (/\ loc' # None
              /\ loc'.x = origin.x
              /\ loc'.y = origin.y)]_vars

\* A move of two cells along a path inside the sheet has been made; the
\* move that undoes it is the step the property speaks of.
C4_Witness ==
    /\ pc = "ready"
    /\ op.kind = "move" /\ op.moves = 2 /\ applied
    /\ loc # None
    /\ PathValid(origin.x, origin.y, op.dx, op.dy, 2)
    /\ loc.x = origin.x + 2 * op.dx
    /\ loc.y = origin.y + 2 * op.dy

(***************************************************************************)
(* C5.  move(d, count) yields None when one of the count coordinates it    *)
(* steps on lies outside the sheet, and otherwise the Location count       *)
(* cells away holding that cell's value, empty or not.                     *)
(***************************************************************************)
C5_MoveTakesCountSteps ==
    (pc = "ready" /\ op.kind = "move" /\ applied)
        => LET x == origin.x + op.moves * op.dx
               y == origin.y + op.moves * op.dy
           IN  IF PathValid(origin.x, origin.y, op.dx, op.dy, op.moves)
               THEN /\ loc # None
                    /\ loc.x = x /\ loc.y = y
                    /\ loc.value = Str(Cell(x, y))
               ELSE loc = None

\* A move of two cells that lands on an empty cell.
C5_Witness ==
    /\ pc = "ready"
    /\ op.kind = "move" /\ op.moves = 2 /\ applied
    /\ loc # None
    /\ loc.value = EmptyStr
    /\ (loc.x # origin.x \/ loc.y # origin.y)

(***************************************************************************)
(* C6.  _moveUntilLastContinuousValue yields the last cell of the longest  *)
(* run of non-empty cells of the sheet that starts right after the         *)
(* current cell, and the current Location itself, unchanged, when that run *)
(* is empty.                                                               *)
(***************************************************************************)
InRun(x, y, dx, dy, k) ==
    \A j \in 1..k :
        /\ Valid(x + j * dx, y + j * dy)
        /\ Cell(x + j * dx, y + j * dy) # <<>>

RunLength(x, y, dx, dy) ==
    CHOOSE k \in 0..Extent(sheet) :
        InRun(x, y, dx, dy, k) /\ ~InRun(x, y, dx, dy, k + 1)

C6_LastOfContinuousRun ==
    [][(pc = "ready" /\ loc # None /\ op'.kind = "untilLastContinuous")
          => LET k == RunLength(loc.x, loc.y, op'.dx, op'.dy)
                 x == loc.x + k * op'.dx
                 y == loc.y + k * op'.dy
             IN  IF k = 0
                 THEN loc' = loc
                 ELSE /\ loc' # None
                      /\ loc'.x = x /\ loc'.y = y
                      /\ loc'.value = Str(Cell(x, y))]_vars

\* A run of two cells has been followed to its end.
C6_Witness ==
    /\ pc = "ready"
    /\ op.kind = "untilLastContinuous" /\ applied
    /\ loc # None
    /\ (loc.x = origin.x + 2 \/ loc.y = origin.y + 2)

(***************************************************************************)
(* C7.  A scan for an exact value or a prefix ends: it yields the first    *)
(* non-empty cell after the current one that meets the condition, and None *)
(* when the sheet ends before such a cell.                                 *)
(***************************************************************************)
Meets(o, text) ==
    /\ text # <<>>
    /\ CASE o.kind = "untilValue" -> TRUE
         [] o.kind = "untilExact" -> text = o.arg
         [] o.kind = "untilPrefix" -> HasPrefix(text, o.arg)

Hits(o, x, y) ==
    {k \in 1..Extent(sheet) :
        /\ PathValid(x, y, o.dx, o.dy, k)
        /\ Meets(o, Cell(x + k * o.dx, y + k * o.dy))}

FirstHit(o, x, y) ==
    CHOOSE k \in Hits(o, x, y) : \A j \in Hits(o, x, y) : k <= j

C7_ScanResult ==
    (pc = "ready" /\ applied /\ op.kind \in {"untilExact", "untilPrefix"})
        => IF Hits(op, origin.x, origin.y) = {}
           THEN loc = None
           ELSE LET k == FirstHit(op, origin.x, origin.y)
                    x == origin.x + k * op.dx
                    y == origin.y + k * op.dy
                IN  /\ loc # None
                    /\ loc.x = x /\ loc.y = y
                    /\ loc.value = Str(Cell(x, y))

C7_ScanTerminates ==
    /\ []C7_ScanResult
    /\ (pc = "scan") ~> (pc = "ready")

\* A scan for "1a" that passed a cell holding "1" and found "1a" after it.
C7_Witness ==
    /\ pc = "ready"
    /\ op.kind = "untilExact" /\ applied
    /\ loc # None
    /\ loc.x = origin.x + 2 * op.dx
    /\ loc.y = origin.y + 2 * op.dy
    /\ Cell(origin.x + op.dx, origin.y + op.dy) = <<"1">>

(***************************************************************************)
(* C8.  findExact and findPrefix yield the first matching cell in          *)
(* row-major order, and None only when no cell of the sheet matches.       *)
(***************************************************************************)
Matches(o, text) ==
    IF o.kind = "findExact" THEN text = o.arg ELSE HasPrefix(text, o.arg)

C8_RowMajorFirst ==
    (op.kind \in {"findExact", "findPrefix"})
        => IF loc = None
           THEN \A y \in 0..(Len(sheet) - 1) :
                    \A x \in 0..(Len(sheet[y + 1]) - 1) :
                        ~Matches(op, Cell(x, y))
           ELSE /\ Valid(loc.x, loc.y)
                /\ Matches(op, Cell(loc.x, loc.y))
                /\ \A y \in 0..loc.y :
                       \A x \in 0..(Len(sheet[y + 1]) - 1) :
                           (y < loc.y \/ x < loc.x) => ~Matches(op, Cell(x, y))

\* The target text stands in two rows and the search took the upper one.
C8_Witness ==
    /\ op.kind = "findExact"
    /\ loc # None
    /\ \E y \in 0..(Len(sheet) - 1) :
           \E x \in 0..(Len(sheet[y + 1]) - 1) :
               y > loc.y /\ Cell(x, y) = op.arg

(***************************************************************************)
(* C9.  The Location findPrefix yields carries the prefix and the rest of  *)
(* the cell's text after it, and a getSuffix step right after it yields a  *)
(* Location at the same coordinate whose value is that rest.               *)
(***************************************************************************)
C9_PrefixRecorded ==
    (op.kind = "findPrefix" /\ loc # None)
        => /\ loc.prefix = op.arg
           /\ Splits(Cell(loc.x, loc.y), loc.prefix, loc.suffix)

C9_SuffixRead ==
    (pc = "ready" /\ op.kind = "findPrefix" /\ loc # None
        /\ op'.kind = "getSuffix")
        => /\ loc' # None
           /\ loc'.x = loc.x /\ loc'.y = loc.y
           /\ loc'.value = Str(Rest(Cell(loc.x, loc.y), op.arg))

C9_FindPrefixSuffix ==
    /\ []C9_PrefixRecorded
    /\ [][C9_SuffixRead]_vars

\* getSuffix has read "a", the rest of "1a" after the prefix "1".
C9_Witness ==
    /\ pc = "ready"
    /\ op.kind = "getSuffix" /\ applied
    /\ loc # None
    /\ loc.value = Str(<<"a">>)
    /\ Cell(loc.x, loc.y) = <<"1", "a">>

(***************************************************************************)
(* C10.  As claimed: a getSuffix step right after a successful scan for a  *)
(* prefix yields the rest of the found cell's text after that prefix.      *)
(***************************************************************************)
C10_SuffixAfterPrefixScan ==
    [][(pc = "ready" /\ op.kind = "untilPrefix" /\ applied /\ loc # None
          /\ op'.kind = "getSuffix")
          => (/\ loc' # None
              /\ loc'.value = Str(Rest(Cell(loc.x, loc.y), op.arg)))]_vars

(***************************************************************************)
(* What a rule yields on the sheet, read off the sheet as a whole: a       *)
(* Location, None, or Raised when a transform fails.                       *)
(***************************************************************************)
Raised == [raised |-> TRUE]

Yield(o, l) ==
    IF l = None \/ l = Raised THEN l
    ELSE CASE o.kind = "move" ->
                IF PathValid(l.x, l.y, o.dx, o.dy, o.moves)
                THEN Location(l.x + o.moves * o.dx, l.y + o.moves * o.dy,
                              Str(Cell(l.x + o.moves * o.dx,
                                       l.y + o.moves * o.dy)), <<>>, <<>>)
                ELSE None
           [] o.kind \in ScanKinds ->
                IF Hits(o, l.x, l.y) = {} THEN None
                ELSE LET k == FirstHit(o, l.x, l.y) IN
                     Location(l.x + k * o.dx, l.y + k * o.dy,
                              Str(Cell(l.x + k * o.dx, l.y + k * o.dy)),
                              <<>>, <<>>)
           [] o.kind = "untilLastContinuous" ->
                LET k == RunLength(l.x, l.y, o.dx, o.dy) IN
                IF k = 0 THEN l
                ELSE Location(l.x + k * o.dx, l.y + k * o.dy,
                              Str(Cell(l.x + k * o.dx, l.y + k * o.dy)),
                              <<>>, <<>>)
           [] o.kind = "getSuffix" ->
                Location(l.x, l.y, Str(l.suffix), <<>>, <<>>)
           [] o.kind = "modify" ->
                IF remove_pvm_raises(l.value) THEN Raised
                ELSE Location(l.x, l.y, remove_pvm(l.value), <<>>, <<>>)

FirstMatch(o) ==
    LET hits == {c \in {Coord(x, y) : x \in 0..Extent(sheet),
                                       y \in 0..(Len(sheet) - 1)} :
                    Valid(c.x, c.y) /\ Matches(o, Cell(c.x, c.y))}
    IN  IF hits = {} THEN None
        ELSE LET c == CHOOSE c \in hits :
                          \A d \in hits :
                              c.y < d.y \/ (c.y = d.y /\ c.x <= d.x)
             IN  IF o.kind = "findExact"
                 THEN Location(c.x, c.y, Str(Cell(c.x, c.y)), <<>>, <<>>)
                 ELSE Location(c.x, c.y, Str(Cell(c.x, c.y)), o.arg,
                               Rest(Cell(c.x, c.y), o.arg))

RECURSIVE YieldOf(_, _)
YieldOf(rule, n) ==
    IF n = 1 THEN FirstMatch(rule[1])
    ELSE Yield(rule[n], YieldOf(rule, n - 1))

RuleYield(rule) == YieldOf(rule, Len(rule))

\* The rows the pass has produced: those of the output file.
Produced == IF pcA = "done" THEN out ELSE <<>>

IsCsv(name) == endswith(name, DotCsv)

(***************************************************************************)
(* C1.  As claimed: when a transform step fails on the current value, the  *)
(* column is left out of the document's row and the pass goes on; the      *)
(* aggregation is not aborted.                                             *)
(***************************************************************************)
C1_TransformFailureIsolated ==
    (pc = "raised")
        => /\ pcA = "columns"
           /\ column_name \notin DOMAIN row_data

(***************************************************************************)
(* C2.  As claimed: the pass produces exactly one row for every document,  *)
(* its Filename is the document's file name whatever the rules yield, a    *)
(* column whose rule yields a Location holds that Location's value, and a  *)
(* column whose rule yields None is absent.                                *)
(***************************************************************************)
RowMatchesRules(row, upto) ==
    \A k \in 1..upto :
        LET name == parse_columns[k][1]
            r == RuleYield(parse_columns[k][2])
        IN  /\ (r # None /\ r # Raised)
                  => (name \in DOMAIN row /\ row[name] = r.value)
            /\ (r = None) => name \notin DOMAIN row

C2_RowUnderConstruction ==
    (pcA = "columns")
        => /\ row_data["Filename"] = Str(folder[fi])
           /\ RowMatchesRules(row_data, ci - 1)

C2_OneRowPerDocument ==
    /\ C2_RowUnderConstruction
    /\ (pcA \in {"done", "crashed"})
          => \A i \in 1..Len(folder) :
                 IsCsv(folder[i])
                    => Cardinality({j \in 1..Len(Produced) :
                           Produced[j]["Filename"] = Str(folder[i])}) = 1

\* The same, of the passes no transform of which fails.
C2_WhenNoTransformFails ==
    /\ C2_RowUnderConstruction
    /\ (pcA = "done")
          => \A i \in 1..Len(folder) :
                 IsCsv(folder[i])
                    => Cardinality({j \in 1..Len(Produced) :
                           Produced[j]["Filename"] = Str(folder[i])}) = 1

====
